---- MODULE Spec2Model ----
(***************************************************************************)
(* Model of openagent.agent.scheduler.SchedulerManager: registration of    *)
(* the tasks of tasks_config with the local (APScheduler) scheduler or the *)
(* queue (Celery beat + solo worker) scheduler, the firings of both        *)
(* backends, and stop().                                                   *)
(*                                                                         *)
(* Library behaviour the source relies on, as modelled here:               *)
(*  - APScheduler add_job without max_instances keeps at most one running  *)
(*    instance of a job; a firing that finds the instance running is       *)
(*    skipped with a warning, and the job's exceptions are caught by the   *)
(*    executor that called the job function.                               *)
(*  - AsyncIOScheduler.shutdown() is synchronous: it cancels the futures   *)
(*    of the job coroutines that are in flight.                            *)
(*  - Celery's Task.retry raises exc when retries + 1 > max_retries.       *)
(*  - Thread.join(timeout) returns when the thread ended or the timeout    *)
(*    elapsed, whichever is first.                                         *)
(*  - celery beat loads app.conf.beat_schedule when its scheduler is set   *)
(*    up, in its own thread.                                               *)
(*  - yaml.safe_load keeps the last value of a repeated mapping key.       *)
(*  - pydantic collects a model's validators from the decorator objects    *)
(*    in the class namespace; a classmethod wrapped around one is not      *)
(*    collected.                                                           *)
(*  - A job sent with "expires" seconds is discarded by the worker when it *)
(*    is received after that many seconds.                                 *)
(***************************************************************************)
EXTENDS Integers, Sequences, FiniteSets, TLC

\* ---------------------------------------------------------------- bounds
\* Firings (timer firings, beat enqueues, broker redeliveries) in a
\* behaviour, over all tasks.
MaxFirings == 3

\* The age at which the count of a waiting job's seconds stops.
MaxAge == 2

\* Calls of stop() in a behaviour.
MaxStops == 2

\* ------------------------------------------------------------ task sets
\* The keys of tasks_config, and the order tasks_config.items() yields them.
TaskIds == {"a", "b"}
TaskOrder == <<"a", "b">>

\* schedule.type values.
Types == {"local", "queue"}
\* Optional[int] interval: {} is None, {n} is n.
Intervals == {{}, {2}}
\* Optional[str] cron: "" is None (falsy), "ok" a crontab that parses,
\* "bad" one CronTrigger.from_crontab rejects.
Crons == {"", "ok", "bad"}
DelayVariations == {0, 1}

TaskConfig == [type : Types, interval : Intervals, cron : Crons,
               delay_variation : DelayVariations]

\* Interval values on both sides of the bound validate_interval names.
LowIntervals == {{-1}, {0}, {2}}
\* Interval tasks over LowIntervals; those of the interval in Intervals
\* have jitter.
LowTaskConfig ==
    {c \in [type : Types, interval : LowIntervals, cron : {""},
            delay_variation : DelayVariations] :
        c.delay_variation > 0 <=> c.interval \in Intervals}
\* schedule.type is a str: a value that is neither "local" nor "queue".
AnyTypes == Types \cup {"other"}
\* Interval tasks over AnyTypes.
AnyTypeTaskConfig == [type : AnyTypes, interval : Intervals \ {{}}, cron : {""},
                      delay_variation : DelayVariations]

\* Tasks with an interval and no cron, as the beat schedule takes them.
IntervalTaskConfig == [type : Types, interval : Intervals \ {{}}, cron : {""},
                       delay_variation : DelayVariations]

\* The statement positions of celery_task a delivery can be at.
Phases == {"check", "set", "delay", "run"}
NoExec == [p \in Phases |-> 0]

VARIABLES
    yaml_doc,       \* the entries of the `tasks:` mapping of the YAML file
    tasks_config,   \* task id -> TaskConfig (never changed after Init)
    env_raise,      \* Celery(...) / Thread.start() raises in the caller
    pcInit,         \* position of init_scheduled_tasks
    idx,            \* index in TaskOrder of the loop of init_scheduled_tasks
    jobs,           \* ids of the jobs added to self.scheduler
    running,        \* self.scheduler.running
    celery_app,     \* self.celery_app is set
    worker_thread,  \* "none" | "alive" | "exited"
    beat_thread,    \* "none" | "alive" | "exited"
    beat_schedule,  \* keys of celery_app.conf.beat_schedule
    beat_loaded,    \* the beat thread has set up its scheduler
    beat_entries,   \* the schedule entries the beat thread loaded
    queue,          \* jobs waiting in the broker's sequential_queue
    task_running,   \* task id -> the nonlocal flag of its celery_task
    exec,           \* task id -> phase -> deliveries of it at that phase
    linst,          \* task id -> running instances the local scheduler counts
    ldelay,         \* task id -> task_wrapper coroutines in asyncio.sleep
    lrun,           \* task id -> task_wrapper coroutines awaiting the runner
    fired,          \* task id -> firings so far (timer, beat enqueue, redelivery)
    started,        \* task id -> runner invocations started so far
    skipped,        \* task id -> firings skipped so far
    escaped,        \* ids whose firing callback let an exception out
    cancelled,      \* ids whose in-flight local runner call was cancelled
    delay,          \* task id -> seconds of sleep drawn for its firing in flight
    qage,           \* for each job of queue, the seconds since it was enqueued
    xage,           \* task id -> age at receipt of its job being executed
    shutdown_sent,  \* control.shutdown() was broadcast
    pcStop,         \* position of stop()
    reported,       \* task id -> what its firings named: <<"log", id>> in a
                    \* log line, <<"query", id>> the task whose query was run
    created,        \* Celery apps (each with its two threads) created so far
    stops           \* calls of stop() that have returned

vars == <<yaml_doc, tasks_config, env_raise, pcInit, idx, jobs, running, celery_app,
          worker_thread, beat_thread, beat_schedule, beat_loaded, beat_entries,
          queue, task_running, exec, linst, ldelay, lrun, fired, started,
          skipped, escaped, cancelled, delay, qage, xage, shutdown_sent,
          pcStop, reported, created, stops>>

cfgVars == <<yaml_doc, tasks_config, env_raise>>
initVars == <<pcInit, idx>>
localRegVars == <<jobs, running>>
celeryRegVars == <<celery_app, beat_schedule>>
threadVars == <<worker_thread, beat_thread>>
beatVars == <<beat_loaded, beat_entries>>
localRunVars == <<linst, ldelay, lrun>>
stopVars == <<shutdown_sent, pcStop>>
timeVars == <<delay, qage, xage>>
histVars == <<reported, created, stops>>

\* ------------------------------------------------------------- helpers
RECURSIVE SumOver(_, _)
SumOver(f, S) ==
    IF S = {} THEN 0
    ELSE LET x == CHOOSE y \in S : TRUE IN f[x] + SumOver(f, S \ {x})

\* Deliveries of task t the worker is executing celery_task for.
Executing(t) == SumOver(exec[t], Phases)
\* Deliveries the worker is executing, over all tasks.
Busy == SumOver([t \in TaskIds |-> Executing(t)], TaskIds)
\* Runner invocations in flight, per backend.
QueueRuns == SumOver([t \in TaskIds |-> exec[t]["run"]], TaskIds)
LocalRuns == SumOver(lrun, TaskIds)
\* Firings so far, over all tasks.
Fired == SumOver(fired, TaskIds)

Inc(f, t) == [f EXCEPT ![t] = @ + 1]
Dec(f, t) == [f EXCEPT ![t] = @ - 1]
Move(e, t, from, to) == [e EXCEPT ![t][from] = @ - 1, ![t][to] = @ + 1]
\* r with `what` added to what the firings of t named.
Note(r, t, what) == [r EXCEPT ![t] = @ \cup {what}]
Leave(e, t, from) == [e EXCEPT ![t][from] = @ - 1]

\* The host event loop is free to run callbacks: init_scheduled_tasks and
\* stop() are synchronous calls made on the loop's thread.
LoopFree == pcInit \in {"done", "raised"} /\ pcStop \in {"idle", "done"}

\* ------------------------------------------------------- configuration
\* A YAML `tasks:` mapping with one entry for each id, in TaskOrder.
Document(f) ==
    [i \in 1..Len(TaskOrder) |-> [id |-> TaskOrder[i], cfg |-> f[TaskOrder[i]]]]

\* The documents with one entry per id, and those that repeat a key.
PlainDocs(C) == {Document(f) : f \in [TaskIds -> C]}
DupDocs(C) ==
    {Append(d, [id |-> t, cfg |-> c]) : d \in PlainDocs(C), t \in TaskIds, c \in C}

\* yaml.safe_load on a mapping: the entries are stored into a dict one
\* after the other, a repeated key replaces the value stored before.
RECURSIVE safe_load(_)
safe_load(doc) ==
    IF doc = <<>>
    THEN [k \in {} |-> {}]
    ELSE LET m == safe_load(SubSeq(doc, 1, Len(doc) - 1))
             e == doc[Len(doc)]
         IN  [k \in DOMAIN m \cup {e.id} |-> IF k = e.id THEN e.cfg ELSE m[k]]

\* The field validators pydantic collects from SchedulerConfig and
\* TaskConfig: it looks for its own decorator objects in the class
\* namespace, and each validator there is a classmethod object wrapped
\* around one.
field_validators == {}

\* SchedulerConfig.validate_scheduler_type.
validate_scheduler_type(v) == v \in {"local", "queue"}

\* TaskConfig.validate_interval.
validate_interval(v) == \A n \in v : ~(n < 1)

\* TaskConfig.validate_delay_variation.
validate_delay_variation(v) == ~(v < 0)

\* TaskConfig(**entry): the collected validators pass.
TaskConfigValid(cfg) ==
    /\ "type" \in field_validators => validate_scheduler_type(cfg.type)
    /\ "interval" \in field_validators => validate_interval(cfg.interval)
    /\ "delay_variation" \in field_validators
          => validate_delay_variation(cfg.delay_variation)

\* AgentConfig.from_yaml: cls(**yaml.safe_load(f)) returns the config.
from_yaml(doc) == \A k \in DOMAIN safe_load(doc) : TaskConfigValid(safe_load(doc)[k])

\* The ids the document has more than one entry for.
DuplicateIds == {t \in TaskIds :
                    Cardinality({i \in DOMAIN yaml_doc : yaml_doc[i].id = t}) > 1}

\* ---------------------------------------------------------------- Init
\* SchedulerManager.__init__, with the agent's config loaded from docs.
Constructed(docs) ==
    /\ yaml_doc \in docs
    /\ from_yaml(yaml_doc)
    /\ tasks_config = safe_load(yaml_doc)
    /\ pcInit = "loop"
    /\ idx = 1
    /\ jobs = {}
    /\ running = FALSE
    /\ celery_app = FALSE
    /\ worker_thread = "none"
    /\ beat_thread = "none"
    /\ beat_schedule = {}
    /\ beat_loaded = FALSE
    /\ beat_entries = {}
    /\ queue = <<>>
    /\ task_running = [t \in TaskIds |-> FALSE]
    /\ exec = [t \in TaskIds |-> NoExec]
    /\ linst = [t \in TaskIds |-> 0]
    /\ ldelay = [t \in TaskIds |-> 0]
    /\ lrun = [t \in TaskIds |-> 0]
    /\ fired = [t \in TaskIds |-> 0]
    /\ started = [t \in TaskIds |-> 0]
    /\ skipped = [t \in TaskIds |-> 0]
    /\ escaped = {}
    /\ cancelled = {}
    /\ delay = [t \in TaskIds |-> 0]
    /\ qage = <<>>
    /\ xage = [t \in TaskIds |-> 0]
    /\ shutdown_sent = FALSE
    /\ pcStop = "idle"
    /\ reported = [t \in TaskIds |-> {}]
    /\ created = 0
    /\ stops = 0

Init ==
    /\ env_raise \in BOOLEAN
    /\ Constructed(PlainDocs(TaskConfig))

\* Init with documents that repeat a key or hold an interval below 1.
InitConfig ==
    /\ env_raise = FALSE
    /\ Constructed(PlainDocs(LowTaskConfig) \cup DupDocs(LowTaskConfig))

\* Init with tasks of any schedule.type.
InitTypes ==
    /\ env_raise = FALSE
    /\ Constructed(PlainDocs(AnyTypeTaskConfig))

\* Init with interval tasks only.
InitTimed ==
    /\ env_raise = FALSE
    /\ Constructed(PlainDocs(IntervalTaskConfig))

\* ------------------------------------------------ init_scheduled_tasks
\* The task the loop of init_scheduled_tasks is at.
CurrentTask == TaskOrder[idx]

\* Building the trigger of a local task raises: CronTrigger.from_crontab
\* on a crontab it cannot parse (ValueError), IntervalTrigger(seconds=None)
\* (TypeError). The cron branch is taken whenever cron is truthy.
TriggerRaises(cfg) ==
    IF cfg.cron # "" THEN cfg.cron = "bad" ELSE cfg.interval = {}

\* The beat_schedule entry computes task_config.interval - 1: a TypeError
\* when interval is None.
EntryRaises(cfg) == cfg.interval = {}

\* The condition under which init_scheduled_tasks starts the local scheduler.
HasLocalTask == \E t \in TaskIds : tasks_config[t].type = "local"

\* One iteration of the loop for a task whose type is not "queue": add_job
\* with the cron or the interval trigger. No handler surrounds the calls:
\* an exception ends init_scheduled_tasks.
add_local_job ==
    /\ pcInit = "loop"
    /\ idx <= Len(TaskOrder)
    /\ tasks_config[CurrentTask].type # "queue"
    /\ IF TriggerRaises(tasks_config[CurrentTask])
       THEN /\ pcInit' = "raised"
            /\ UNCHANGED <<idx, jobs>>
       ELSE /\ jobs' = jobs \cup {CurrentTask}
            /\ idx' = idx + 1
            /\ pcInit' = "loop"
    /\ UNCHANGED <<cfgVars, histVars, timeVars, running, celeryRegVars, threadVars, beatVars,
                   queue, task_running, exec, localRunVars, fired, started,
                   skipped, escaped, cancelled, stopVars>>

\* Mutant of start_celery_threads: the beat thread is not started.
start_worker_only ==
    /\ worker_thread' = "alive"
    /\ beat_thread' = beat_thread

\* _start_celery_threads: both daemon threads are started.
start_celery_threads ==
    /\ worker_thread' = "alive"
    /\ beat_thread' = "alive"

\* Mutant of AppMissing: the app is created for every queue task.
AppAlwaysMissing == TRUE

\* _init_celery_task: `if not self.celery_app`.
AppMissing == ~celery_app

\* _init_celery_task, first part: the Celery app is created and configured
\* and the threads are started, when self.celery_app is not set yet.
create_celery_app ==
    /\ pcInit = "loop"
    /\ idx <= Len(TaskOrder)
    /\ tasks_config[CurrentTask].type = "queue"
    /\ AppMissing
    /\ IF env_raise
       THEN /\ pcInit' = "raised"
            /\ UNCHANGED <<celery_app, threadVars, created>>
       ELSE /\ celery_app' = TRUE
            /\ start_celery_threads
            /\ created' = created + 1
            /\ pcInit' = "register"
    /\ UNCHANGED <<cfgVars, reported, stops, timeVars, idx, localRegVars, beat_schedule, beatVars,
                   queue, task_running, exec, localRunVars, fired, started,
                   skipped, escaped, cancelled, stopVars>>

\* _init_celery_task, second part: the flag and celery_task are created and
\* the beat_schedule entry of the task is added.
init_celery_task ==
    /\ \/ pcInit = "register"
       \/ /\ pcInit = "loop"
          /\ idx <= Len(TaskOrder)
          /\ tasks_config[CurrentTask].type = "queue"
          /\ ~AppMissing
    /\ task_running' = [task_running EXCEPT ![CurrentTask] = FALSE]
    /\ IF EntryRaises(tasks_config[CurrentTask])
       THEN /\ pcInit' = "raised"
            /\ UNCHANGED <<idx, beat_schedule>>
       ELSE /\ beat_schedule' = beat_schedule \cup {CurrentTask}
            /\ idx' = idx + 1
            /\ pcInit' = "loop"
    /\ UNCHANGED <<cfgVars, histVars, timeVars, localRegVars, celery_app, threadVars, beatVars,
                   queue, exec, localRunVars, fired, started, skipped,
                   escaped, cancelled, stopVars>>

\* After the loop: the local scheduler is started if a task has type "local".
start_local_scheduler ==
    /\ pcInit = "loop"
    /\ idx > Len(TaskOrder)
    /\ running' = (running \/ HasLocalTask)
    /\ pcInit' = "done"
    /\ UNCHANGED <<cfgVars, histVars, timeVars, idx, jobs, celeryRegVars, threadVars, beatVars,
                   queue, task_running, exec, localRunVars, fired, started,
                   skipped, escaped, cancelled, stopVars>>

init_scheduled_tasks ==
    \/ add_local_job
    \/ create_celery_app
    \/ init_celery_task
    \/ start_local_scheduler

\* ------------------------------------------------------- local backend
\* add_job is called without max_instances: the scheduler's default.
max_instances == 1

\* Mutant of uniform: the draw may exceed the upper end by a second.
uniform_beyond(lo, hi) == lo..(hi + 1)

\* random.uniform(lo, hi), in whole seconds.
uniform(lo, hi) == lo..hi

\* Mutant of LocalGuardHeld: the running instance is not looked at.
LocalGuardNever(t) == FALSE

\* The local scheduler's test before it runs a job: the job already has
\* max_instances instances running (the firing is then skipped).
LocalGuardHeld(t) == linst[t] >= max_instances

\* The variable task_id of init_scheduled_tasks, which the log line of
\* task_wrapper reads when it runs: the key the loop is at, the last key
\* once the loop is over.
task_id == TaskOrder[IF idx > Len(TaskOrder) THEN Len(TaskOrder) ELSE idx]

\* A timer firing of local job t. A skipped firing only logs a warning;
\* otherwise task_wrapper is submitted and runs to its first await:
\* asyncio.sleep when delay_variation > 0, else the runner.
LocalFire(t) ==
    /\ LoopFree
    /\ running
    /\ t \in jobs
    /\ Fired < MaxFirings
    /\ fired' = Inc(fired, t)
    /\ IF LocalGuardHeld(t)
       THEN /\ skipped' = Inc(skipped, t)
            /\ reported' = Note(reported, t, <<"log", t>>)
            /\ UNCHANGED <<localRunVars, started, delay>>
       ELSE /\ linst' = Inc(linst, t)
            /\ skipped' = skipped
            /\ IF tasks_config[t].delay_variation > 0
               THEN /\ ldelay' = Inc(ldelay, t)
                    /\ \E d \in uniform(0, tasks_config[t].delay_variation) :
                          delay' = [delay EXCEPT ![t] = d]
                    /\ reported' = Note(reported, t, <<"log", task_id>>)
                    /\ UNCHANGED <<lrun, started>>
               ELSE /\ lrun' = Inc(lrun, t)
                    /\ started' = Inc(started, t)
                    /\ reported' = Note(reported, t, <<"query", t>>)
                    /\ UNCHANGED <<ldelay, delay>>
    /\ UNCHANGED <<cfgVars, created, stops, qage, xage, initVars, localRegVars, celeryRegVars, threadVars,
                   beatVars, queue, task_running, exec, escaped, cancelled, stopVars>>

\* task_wrapper: asyncio.sleep(delay) is over, the runner is awaited.
LocalDelayEnd(t) ==
    /\ LoopFree
    /\ ldelay[t] > 0
    /\ ldelay' = Dec(ldelay, t)
    /\ lrun' = Inc(lrun, t)
    /\ started' = Inc(started, t)
    /\ reported' = Note(reported, t, <<"query", t>>)
    /\ delay' = [delay EXCEPT ![t] = 0]
    /\ UNCHANGED <<cfgVars, created, stops, qage, xage, initVars, localRegVars, celeryRegVars, threadVars,
                   beatVars, queue, task_running, exec, linst, fired, skipped,
                   escaped, cancelled, stopVars>>

\* What leaves task_wrapper when the runner raises: task_wrapper has no
\* handler around `await task_runner(query)`.
WrapperPropagates == TRUE

\* task_wrapper: the runner returned (raised = FALSE) or raised; the
\* scheduler's executor releases the instance either way.
LocalRunnerEnd(t, raised) ==
    /\ LoopFree
    /\ lrun[t] > 0
    /\ lrun' = Dec(lrun, t)
    /\ linst' = Dec(linst, t)
    /\ escaped' = IF raised /\ WrapperPropagates THEN escaped \cup {t} ELSE escaped
    /\ UNCHANGED <<cfgVars, histVars, timeVars, initVars, localRegVars, celeryRegVars, threadVars,
                   beatVars, queue, task_running, exec, ldelay, fired, started,
                   skipped, cancelled, stopVars>>

task_wrapper ==
    \E t \in TaskIds :
        \/ LocalFire(t)
        \/ LocalDelayEnd(t)
        \/ \E raised \in BOOLEAN : LocalRunnerEnd(t, raised)

\* ------------------------------------------------------- queue backend
\* start_beat: the beat thread sets up its scheduler from
\* celery_app.conf.beat_schedule.
BeatSetup ==
    /\ beat_thread = "alive"
    /\ ~beat_loaded
    /\ beat_loaded' = TRUE
    /\ beat_entries' = beat_schedule
    /\ UNCHANGED <<cfgVars, histVars, timeVars, initVars, localRegVars, celeryRegVars, threadVars,
                   queue, task_running, exec, localRunVars, fired, started,
                   skipped, escaped, cancelled, stopVars>>

\* start_beat: an entry is due and its job is sent to sequential_queue.
BeatEnqueue(t) ==
    /\ beat_thread = "alive"
    /\ beat_loaded
    /\ t \in beat_entries
    /\ Fired < MaxFirings
    /\ fired' = Inc(fired, t)
    /\ queue' = Append(queue, t)
    /\ qage' = Append(qage, 0)
    /\ UNCHANGED <<cfgVars, histVars, delay, xage, initVars, localRegVars, celeryRegVars, threadVars,
                   beatVars, task_running, exec, localRunVars, started,
                   skipped, escaped, cancelled, stopVars>>

start_beat == BeatSetup \/ \E t \in TaskIds : BeatEnqueue(t)

\* task_acks_late: a job is acknowledged when celery_task has ended, so the
\* broker may deliver a job again while its delivery is executing.
Redeliver(t) ==
    /\ Executing(t) > 0
    /\ Fired < MaxFirings
    /\ fired' = Inc(fired, t)
    /\ queue' = Append(queue, t)
    /\ qage' = Append(qage, xage[t])
    /\ UNCHANGED <<cfgVars, histVars, delay, xage, initVars, localRegVars, celeryRegVars, threadVars,
                   beatVars, task_running, exec, localRunVars, started,
                   skipped, escaped, cancelled, stopVars>>

\* Mutant of concurrency: a pool of two.
ConcurrencyTwo == 1 + 1

\* start_worker: CeleryWorker(concurrency=1, pool="solo").
concurrency == 1

\* Mutant of WorkerCanTake: the worker takes a job whatever it executes.
WorkerAlwaysTakes == TRUE

\* The worker takes the next job only while it executes fewer than
\* `concurrency` jobs.
WorkerCanTake == Busy < concurrency

\* The "schedule" of task t's beat entry: task_config.interval.
schedule(t) == CHOOSE n \in tasks_config[t].interval : TRUE

\* The "expires" option of task t's beat entry, in seconds after the job
\* is sent.
expires(t) == schedule(t) - 1

\* The worker's test on a job it receives: the job's expiry time is past.
Expired(t, age) == age > expires(t)

\* start_worker: the worker takes the job at the head of sequential_queue;
\* it discards an expired job, else it calls the job's celery_task.
WorkerReceive ==
    /\ worker_thread = "alive"
    /\ queue # <<>>
    /\ WorkerCanTake
    /\ IF Expired(Head(queue), Head(qage))
       THEN UNCHANGED <<exec, xage>>
       ELSE /\ exec' = [exec EXCEPT ![Head(queue)]["check"] = @ + 1]
            /\ xage' = [xage EXCEPT ![Head(queue)] = Head(qage)]
    /\ queue' = Tail(queue)
    /\ qage' = Tail(qage)
    /\ UNCHANGED <<cfgVars, histVars, delay, initVars, localRegVars, celeryRegVars, threadVars,
                   beatVars, task_running, localRunVars, fired, started,
                   skipped, escaped, cancelled, stopVars>>

\* celery_task: `if task_running:` -- warn and return None, or go on.
CeleryCheck(t) ==
    /\ exec[t]["check"] > 0
    /\ IF task_running[t]
       THEN /\ exec' = Leave(exec, t, "check")
            /\ skipped' = Inc(skipped, t)
            /\ reported' = Note(reported, t, <<"log", t>>)
       ELSE /\ exec' = Move(exec, t, "check", "set")
            /\ UNCHANGED <<skipped, reported>>
    /\ UNCHANGED <<cfgVars, created, stops, timeVars, initVars, localRegVars, celeryRegVars, threadVars,
                   beatVars, queue, task_running, localRunVars, fired, started,
                   escaped, cancelled, stopVars>>

\* celery_task: `task_running = True`, then the new loop runs to the sleep
\* when delay_variation > 0, else to the runner.
CelerySet(t) ==
    /\ exec[t]["set"] > 0
    /\ task_running' = [task_running EXCEPT ![t] = TRUE]
    /\ IF tasks_config[t].delay_variation > 0
       THEN /\ exec' = Move(exec, t, "set", "delay")
            /\ \E d \in uniform(0, tasks_config[t].delay_variation) :
                  delay' = [delay EXCEPT ![t] = d]
            /\ UNCHANGED <<started, reported>>
       ELSE /\ exec' = Move(exec, t, "set", "run")
            /\ started' = Inc(started, t)
            /\ reported' = Note(reported, t, <<"query", t>>)
            /\ delay' = delay
    /\ UNCHANGED <<cfgVars, created, stops, qage, xage, initVars, localRegVars, celeryRegVars, threadVars,
                   beatVars, queue, localRunVars, fired, skipped, escaped,
                   cancelled, stopVars>>

\* celery_task: the sleep is over, the runner is run to completion.
CeleryDelayEnd(t) ==
    /\ exec[t]["delay"] > 0
    /\ exec' = Move(exec, t, "delay", "run")
    /\ started' = Inc(started, t)
    /\ reported' = Note(reported, t, <<"query", t>>)
    /\ delay' = [delay EXCEPT ![t] = 0]
    /\ UNCHANGED <<cfgVars, created, stops, qage, xage, initVars, localRegVars, celeryRegVars, threadVars,
                   beatVars, queue, task_running, localRunVars, fired, skipped,
                   escaped, cancelled, stopVars>>

\* Mutant of max_retries: one retry is allowed.
OneRetry == 0 + 1

\* The task decorator's max_retries.
max_retries == 0

\* self_task.retry(exc=exc) on the first execution of a job (retries = 0):
\* it raises exc when retries + 1 > max_retries.
RetryRaises == 0 + 1 > max_retries

\* Mutant of FlagAfterExit: the flag is reset on the return path only.
FlagKeptOnRaise(raised) == raised

\* The value of task_running when celery_task is left: the outer `finally`
\* resets it on the return path and on the exception path.
FlagAfterExit(raised) == FALSE

\* celery_task: the runner returned (raised = FALSE) or raised. On an
\* exception the handler logs it and calls retry, which raises exc, or
\* sends the job again when a retry is left.
CeleryRunnerEnd(t, raised) ==
    /\ exec[t]["run"] > 0
    /\ exec' = Leave(exec, t, "run")
    /\ task_running' = [task_running EXCEPT ![t] = FlagAfterExit(raised)]
    /\ xage' = [xage EXCEPT ![t] = 0]
    /\ escaped' = IF raised /\ RetryRaises THEN escaped \cup {t} ELSE escaped
    /\ reported' = IF raised THEN Note(reported, t, <<"log", t>>) ELSE reported
    /\ IF raised /\ ~RetryRaises
       THEN /\ queue' = Append(queue, t)
            /\ qage' = Append(qage, xage[t])
       ELSE UNCHANGED <<queue, qage>>
    /\ UNCHANGED <<cfgVars, created, stops, delay, initVars, localRegVars,
                   celeryRegVars, threadVars, beatVars, localRunVars, fired,
                   started, skipped, cancelled, stopVars>>

celery_task ==
    \E t \in TaskIds :
        \/ CeleryCheck(t)
        \/ CelerySet(t)
        \/ CeleryDelayEnd(t)
        \/ \E raised \in BOOLEAN : CeleryRunnerEnd(t, raised)

\* start_worker: worker.start() returns after the shutdown broadcast, once
\* the job being executed has ended.
WorkerExit ==
    /\ worker_thread = "alive"
    /\ shutdown_sent
    /\ Busy = 0
    /\ worker_thread' = "exited"
    /\ UNCHANGED <<cfgVars, histVars, timeVars, initVars, localRegVars, celeryRegVars, beat_thread,
                   beatVars, queue, task_running, exec, localRunVars, fired,
                   started, skipped, escaped, cancelled, stopVars>>

\* start_beat: beat.run() returns after the shutdown broadcast.
BeatExit ==
    /\ beat_thread = "alive"
    /\ shutdown_sent
    /\ beat_thread' = "exited"
    /\ UNCHANGED <<cfgVars, histVars, timeVars, initVars, localRegVars, celeryRegVars, worker_thread,
                   beatVars, queue, task_running, exec, localRunVars, fired,
                   started, skipped, escaped, cancelled, stopVars>>

start_worker == WorkerReceive \/ WorkerExit \/ \E t \in TaskIds : Redeliver(t)

\* ---------------------------------------------------------------- stop
\* stop(), first step: self.scheduler.shutdown() when it is running. The
\* call is synchronous on the loop's thread: the coroutines in flight do
\* not advance during it, and the executor cancels them.
AwaitingRunner == {t \in TaskIds : lrun[t] > 0}

\* Mutant of AfterShutdown: shutdown leaves the coroutines in flight alone.
ShutdownLeavesPending(f) == f

\* self.scheduler.shutdown(): the executor cancels the futures of the job
\* coroutines in flight, so none is counted any more.
AfterShutdown(f) == [t \in TaskIds |-> 0]

stop_local ==
    /\ pcInit = "done"
    /\ pcStop = "idle"
    /\ IF running
       THEN /\ running' = FALSE
            /\ cancelled' = cancelled \cup AwaitingRunner
            /\ ldelay' = AfterShutdown(ldelay)
            /\ lrun' = AfterShutdown(lrun)
            /\ linst' = AfterShutdown(linst)
            /\ delay' = [t \in TaskIds |-> IF ldelay[t] > 0 THEN 0 ELSE delay[t]]
       ELSE UNCHANGED <<running, cancelled, localRunVars, delay>>
    /\ pcStop' = IF celery_app THEN "broadcast" ELSE "done"
    /\ stops' = IF celery_app THEN stops ELSE stops + 1
    /\ UNCHANGED <<cfgVars, reported, created, qage, xage, initVars, jobs, celeryRegVars, threadVars, beatVars,
                   queue, task_running, exec, fired, started, skipped, escaped, shutdown_sent>>

\* stop(): self.celery_app.control.shutdown().
stop_broadcast ==
    /\ pcStop = "broadcast"
    /\ shutdown_sent' = TRUE
    /\ pcStop' = "join_worker"
    /\ UNCHANGED <<cfgVars, histVars, timeVars, initVars, localRegVars, celeryRegVars, threadVars,
                   beatVars, queue, task_running, exec, localRunVars, fired,
                   started, skipped, escaped, cancelled>>

\* Mutant of JoinReturns: join() without a timeout.
JoinWaitsForExit(thread) == thread # "alive"

\* thread.join(timeout=5) returns: the thread has ended, or 5 seconds have
\* passed.
JoinReturns(thread) == TRUE

\* stop(): self.worker_thread.join(timeout=5).
stop_join_worker ==
    /\ pcStop = "join_worker"
    /\ JoinReturns(worker_thread)
    /\ pcStop' = "join_beat"
    /\ UNCHANGED <<cfgVars, histVars, timeVars, initVars, localRegVars, celeryRegVars, threadVars,
                   beatVars, queue, task_running, exec, localRunVars, fired,
                   started, skipped, escaped, cancelled,
                   shutdown_sent>>

\* stop(): self.beat_thread.join(timeout=5).
stop_join_beat ==
    /\ pcStop = "join_beat"
    /\ JoinReturns(beat_thread)
    /\ pcStop' = "purge"
    /\ UNCHANGED <<cfgVars, histVars, timeVars, initVars, localRegVars, celeryRegVars, threadVars,
                   beatVars, queue, task_running, exec, localRunVars, fired,
                   started, skipped, escaped, cancelled,
                   shutdown_sent>>

\* Mutant of stop_purge: the purge is issued before the broadcast.
purge_before_broadcast ==
    /\ pcStop = "broadcast"
    /\ queue' = <<>>
    /\ qage' = <<>>
    /\ pcStop' = "done"
    /\ stops' = stops + 1
    /\ UNCHANGED <<cfgVars, reported, created, delay, xage, initVars, localRegVars, celeryRegVars, threadVars,
                   beatVars, task_running, exec, localRunVars, fired, started,
                   skipped, escaped, cancelled, shutdown_sent>>

\* stop(): self.celery_app.control.purge() discards the waiting jobs.
stop_purge ==
    /\ pcStop = "purge"
    /\ queue' = <<>>
    /\ qage' = <<>>
    /\ pcStop' = "done"
    /\ stops' = stops + 1
    /\ UNCHANGED <<cfgVars, reported, created, delay, xage, initVars, localRegVars, celeryRegVars, threadVars,
                   beatVars, task_running, exec, localRunVars, fired, started,
                   skipped, escaped, cancelled, shutdown_sent>>

stop ==
    \/ stop_local
    \/ stop_broadcast
    \/ stop_join_worker
    \/ stop_join_beat
    \/ stop_purge

\* stop() is called once more after a call of it has returned.
stop_again ==
    /\ pcStop = "done"
    /\ stops < MaxStops
    /\ pcStop' = "idle"
    /\ UNCHANGED <<cfgVars, histVars, timeVars, initVars, localRegVars,
                   celeryRegVars, threadVars, beatVars, queue, task_running,
                   exec, localRunVars, fired, started, skipped, escaped,
                   cancelled, shutdown_sent>>

\* ------------------------------------------------------------- time
\* A second passes while jobs wait in sequential_queue. Ages are counted
\* up to MaxAge.
Tick ==
    /\ \E i \in 1..Len(qage) : qage[i] < MaxAge
    /\ qage' = [i \in 1..Len(qage) |->
                  IF qage[i] < MaxAge THEN qage[i] + 1 ELSE qage[i]]
    /\ UNCHANGED <<cfgVars, histVars, delay, xage, initVars, localRegVars,
                   celeryRegVars, threadVars, beatVars, queue, task_running,
                   exec, localRunVars, fired, started, skipped, escaped,
                   cancelled, stopVars>>

\* -------------------------------------------------------- specification
Next ==
    \/ init_scheduled_tasks
    \/ task_wrapper
    \/ start_beat
    \/ start_worker
    \/ BeatExit
    \/ celery_task
    \/ stop

Spec == Init /\ [][Next]_vars

\* The program started from a document of InitConfig.
SpecConfig == InitConfig /\ [][Next]_vars

\* The program with the seconds its queued jobs wait.
NextTimed == Next \/ Tick

SpecTimed == InitTimed /\ [][NextTimed]_vars

\* The program started from a document of InitTypes.
SpecTypes == InitTypes /\ [][Next]_vars

\* The program with stop() called again.
NextAgain == Next \/ stop_again

SpecAgain == InitTimed /\ [][NextAgain]_vars

\* ---------------------------------------------------------- properties
Range(q) == {q[i] : i \in 1..Len(q)}

\* A firing of t that acquired the guard has not ended yet.
InFlight(t) == ldelay[t] + lrun[t] + exec[t]["delay"] + exec[t]["run"] > 0

\* C1: for every task id, local or queue-backed, at most one runner
\* invocation of that task is in flight in every reachable state.
AtMostOneInFlight == \A t \in TaskIds : lrun[t] + exec[t]["run"] <= 1

\* C1 witness: the runner of a queue task is in flight while another
\* delivery of the same task waits in the queue.
RedeliveredWhileRunning ==
    \E t \in TaskIds : exec[t]["run"] = 1 /\ t \in Range(queue)

\* C2: no two runner invocations of queue-backed tasks (of two tasks or of
\* one) are in flight at the same time.
QueueRunsSequential ==
    \A a, b \in TaskIds :
        ~(/\ exec[a]["run"] > 0
          /\ exec[b]["run"] > 0
          /\ (a # b \/ exec[a]["run"] > 1))

\* C2 witness: the runner of one queue task is in flight while a job of
\* another queue task waits.
OtherTaskWaits ==
    \E a, b \in TaskIds : a # b /\ exec[a]["run"] = 1 /\ b \in Range(queue)

\* C3: a firing that reaches the guard while a run of the task is in flight
\* is skipped: it starts no runner, occupies no instance, is not queued; and
\* the end of a run starts no runner either.
SkipIsDropped ==
    [][\A t \in TaskIds :
        /\ (fired'[t] = fired[t] + 1 /\ t \in jobs /\ InFlight(t))
              => /\ skipped'[t] = skipped[t] + 1
                 /\ started' = started
                 /\ localRunVars' = localRunVars
                 /\ queue' = queue
        /\ (exec'[t]["check"] < exec[t]["check"] /\ task_running[t])
              => /\ skipped'[t] = skipped[t] + 1
                 /\ started' = started
                 /\ Executing(t)' = Executing(t) - 1
                 /\ queue' = queue
        /\ (lrun'[t] < lrun[t] \/ exec'[t]["run"] < exec[t]["run"])
              => /\ started' = started
                 /\ queue' = queue
                 /\ ldelay'[t] <= ldelay[t]
                 /\ exec'[t]["delay"] <= exec[t]["delay"]
      ]_vars

\* C3 witness: a firing of a task was skipped, the run that was in flight
\* has ended, and the runner was invoked once only.
SkippedAndNotMadeUp ==
    \E t \in TaskIds :
        /\ skipped[t] = 1
        /\ started[t] = 1
        /\ ~InFlight(t)
        /\ t \notin cancelled

\* C4: the guard of a task is held only while a firing that acquired it is
\* in flight, so a firing is skipped only while a run is in flight.
GuardFreeAfterRun ==
    /\ [](\A t \in TaskIds :
            /\ task_running[t] => exec[t]["delay"] + exec[t]["run"] > 0
            /\ linst[t] = ldelay[t] + lrun[t])
    /\ [][\A t \in TaskIds : skipped'[t] > skipped[t] => InFlight(t)]_vars

\* C4 witness: a firing of a queue task ended with the runner raising, the
\* guard is free and a later firing of the task ran.
RanAgainAfterRaise ==
    \E t \in TaskIds :
        /\ t \in escaped
        /\ tasks_config[t].type = "queue"
        /\ ~task_running[t]
        /\ started[t] = 2
        /\ skipped[t] = 0

\* C5 (as claimed): no exception leaves task_wrapper or celery_task.
NoExceptionEscapes == escaped = {}

\* C6: stop() is never blocked: wherever it is between its first and its
\* last step, its next step can be taken, whatever the threads do; and when
\* it has returned the local scheduler is stopped and, with a Celery app,
\* the shutdown was broadcast.
StopNeverBlocks ==
    /\ pcStop \notin {"idle", "done"} => ENABLED stop
    /\ pcStop = "done" => (~running /\ (celery_app => shutdown_sent))

\* C6 witness: stop() has returned and neither thread has exited.
StoppedWithThreadsAlive ==
    pcStop = "done" /\ worker_thread = "alive" /\ beat_thread = "alive"

\* C7 (as claimed): once stop() has returned the queue holds no job.
NoJobsAfterStop == pcStop = "done" => queue = <<>>

\* C8 (as claimed): when stop() has returned, no local runner invocation
\* that was in flight has been cancelled or is still in flight.
StopWaitsForLocalRun ==
    pcStop = "done" => (cancelled = {} /\ LocalRuns = 0)

\* A task the claims call invalid: a cron string that does not parse, or
\* neither interval nor cron set.
InvalidTask(cfg) ==
    cfg.cron = "bad" \/ (cfg.cron = "" /\ cfg.interval = {})

Registered(t) == t \in jobs \/ t \in beat_schedule

\* C9 (as claimed): with an invalid task in the set, init does not raise,
\* every other task is registered and the local scheduler is started.
InvalidTaskOnlyRefused ==
    (/\ pcInit \in {"done", "raised"}
     /\ ~env_raise
     /\ \E t \in TaskIds : InvalidTask(tasks_config[t]))
        => /\ pcInit = "done"
           /\ \A t \in TaskIds :
                  ~InvalidTask(tasks_config[t]) => Registered(t)

\* init_scheduled_tasks ended with an exception of _init_celery_task.
QueueSetupFailed ==
    pcInit = "raised" /\ tasks_config[CurrentTask].type = "queue"

\* C10 (as claimed): when the queue backend fails during init, every valid
\* local task is registered and the local scheduler is running.
QueueFailureContained ==
    QueueSetupFailed =>
        \A t \in TaskIds :
            (tasks_config[t].type = "local" /\ ~TriggerRaises(tasks_config[t]))
                => (t \in jobs /\ running)

DuplicateIdRefused ==
    DuplicateIds # {}
        => (pcInit # "done" /\ \A t \in DuplicateIds : ~Registered(t))

\* A task has exactly one of interval and cron set.
ExactlyOneTrigger(cfg) == (cfg.interval # {}) # (cfg.cron # "")

\* C13 (as claimed): a task is registered with the local scheduler or the
\* queue scheduler only if exactly one of its interval and cron is set.
OneTriggerOrRefused ==
    \A t \in TaskIds : Registered(t) => ExactlyOneTrigger(tasks_config[t])

\* C14 (as claimed): no registered task has an interval below 1, and no
\* beat entry an expiry below 0.
NoIntervalBelowOne ==
    /\ \A t \in TaskIds : Registered(t) => \A n \in tasks_config[t].interval : n >= 1
    /\ \A t \in beat_schedule : expires(t) >= 0

\* C15: in both backends the sleep drawn for a firing of a task with
\* delay_variation d lies in 0..d, and with d = 0 no firing sleeps.
DelayWithinVariation ==
    \A t \in TaskIds :
        /\ delay[t] \in 0..tasks_config[t].delay_variation
        /\ tasks_config[t].delay_variation = 0
              => (ldelay[t] = 0 /\ exec[t]["delay"] = 0)
        /\ (ldelay[t] = 0 /\ exec[t]["delay"] = 0) => delay[t] = 0

\* C15 witness: a local firing and a queue job sleep at once, one of them
\* for the whole of its task's delay_variation.
FullDelayDrawn ==
    \E t, u \in TaskIds :
        /\ ldelay[t] > 0
        /\ exec[u]["delay"] > 0
        /\ delay[t] = tasks_config[t].delay_variation \/ delay[u] = tasks_config[u].delay_variation
        /\ delay[t] # delay[u]

\* C16 (as claimed): the runner of a queue job never starts at or after
\* the time the next job of its task is due, interval seconds after the
\* job was sent.
RunnerStartsBeforeNextDue ==
    [][\A t \in TaskIds :
          exec'[t]["run"] > exec[t]["run"] => xage[t] + delay[t] < schedule(t)
      ]_vars

\* C17 (as claimed): every firing ends either skipped, with one warning, or
\* after its runner was invoked once: a firing in progress ends only by a
\* skip or from the runner, and a timer firing is skipped or submitted.
FiringHasOneOutcome ==
    [][\A t \in TaskIds :
        /\ linst'[t] < linst[t] => ldelay[t] = 0
        /\ Executing(t)' < Executing(t)
              => (skipped'[t] = skipped[t] + 1
                  \/ exec'[t]["run"] < exec[t]["run"])
        /\ (fired'[t] > fired[t] /\ t \in jobs)
              => (skipped'[t] = skipped[t] + 1) # (linst'[t] = linst[t] + 1)
        /\ started'[t] \in {started[t], started[t] + 1}
      ]_vars

\* C18 (as claimed): the guard of a queue task is not held while a job of
\* it is in its jitter delay.
GuardFreeDuringJitter ==
    \A t \in TaskIds : exec[t]["delay"] > 0 => ~task_running[t]

\* C19 (as claimed): once the threads are started, no registration writes
\* beat_schedule, and the schedule the beat thread loaded lacks no task.
ScheduleFrozenAtThreadStart ==
    [][/\ beat_thread # "none" => beat_schedule' = beat_schedule
       /\ beat_loaded' => beat_entries' = beat_schedule'
      ]_vars

\* The order of the positions of stop().
StopOrder ==
    {<<"idle", "broadcast">>, <<"idle", "done">>,
     <<"broadcast", "join_worker">>, <<"join_worker", "join_beat">>,
     <<"join_beat", "purge">>, <<"purge", "done">>}

\* C20: stop() takes its steps in the order local shutdown, broadcast, join
\* of the worker, join of the beat, purge: the local scheduler is shut down
\* in the first step only, the broadcast is sent at its position only, and
\* the step that ends stop() with a Celery app is the purge, after both
\* joins.
StopStepsInOrder ==
    [][/\ pcStop' # pcStop => <<pcStop, pcStop'>> \in StopOrder
       /\ (running /\ ~running') => pcStop = "idle"
       /\ shutdown_sent' # shutdown_sent
             => (pcStop = "broadcast" /\ pcStop' = "join_worker")
       /\ (pcStop' = "done" /\ pcStop # "done" /\ celery_app)
             => (pcStop = "purge" /\ shutdown_sent /\ queue' = <<>>)
      ]_vars

\* C20 witness: both joins have ended and the purge is about to discard a
\* waiting job.
PurgeAfterJoins == pcStop = "purge" /\ shutdown_sent /\ queue # <<>>

\* C21: after stop() has shut the local scheduler down no runner
\* invocation of a local task starts, also not for a firing that was in
\* its jitter delay when stop() was called.
NoLocalStartAfterStop ==
    [][\A t \in TaskIds :
          (lrun'[t] > lrun[t] \/ (t \in jobs /\ started'[t] > started[t]))
              => (running /\ pcStop = "idle")
      ]_vars

\* C21 witness: stop() has returned and a local firing that was in its
\* jitter delay has neither run nor been skipped.
CancelledInJitter ==
    /\ pcStop = "done"
    /\ \E t \in jobs : fired[t] > started[t] + skipped[t]

ReportsOwnId ==
    \A t \in TaskIds : \A w \in reported[t] : w[2] = t

HasQueueTask == \E t \in TaskIds : tasks_config[t].type = "queue"

\* C25: when init has returned, the manager has created one Celery app
\* with one worker and one beat thread if the set has a queue task, none
\* otherwise; the local scheduler of a set without local task is not
\* started.
OneAppIfAnyQueueTask ==
    pcInit = "done"
        => /\ created = IF HasQueueTask THEN 1 ELSE 0
           /\ celery_app <=> HasQueueTask
           /\ worker_thread # "none" <=> HasQueueTask
           /\ beat_thread # "none" <=> HasQueueTask
           /\ ~HasLocalTask => ~running

\* C25 witness: init has returned for a set of two queue tasks.
TwoQueueTasksOneApp ==
    /\ pcInit = "done"
    /\ \A t \in TaskIds : t \in beat_schedule
    /\ created = 1

\* A queue-backed task with a cron that parses and no interval.
CronOnlyQueueTask(cfg) ==
    cfg.type = "queue" /\ cfg.cron = "ok" /\ cfg.interval = {}

\* C26 (as claimed): the registration of a queue-backed task with a cron
\* and no interval does not raise.
CronQueueTaskAccepted ==
    (pcInit = "raised" /\ ~env_raise)
        => ~CronOnlyQueueTask(tasks_config[CurrentTask])

\* C27: the flag of a queue task is set exactly while a delivery of it is
\* between the set and the exit of celery_task; a skipped delivery leaves
\* the flag as it is, and a step that changes the flag of t is a step of
\* a delivery of t or the registration of t.
FlagTracksExecution ==
    [][\A t \in TaskIds :
          /\ task_running'[t] <=> exec'[t]["delay"] + exec'[t]["run"] > 0
          /\ skipped'[t] > skipped[t] => task_running'[t] = task_running[t]
          /\ task_running'[t] # task_running[t] => exec'[t] # exec[t]
      ]_vars

\* C27 witness: the flag of t is held during its jitter delay while a job
\* of another task, whose flag is free, waits.
FlagHeldOthersFree ==
    \E t, u \in TaskIds :
        /\ t # u
        /\ task_running[t] /\ exec[t]["delay"] = 1
        /\ ~task_running[u] /\ u \in Range(queue)

\* C28 (as claimed): when init has returned with a job added to the local
\* scheduler, the local scheduler is running.
LocalJobsAreStarted ==
    (pcInit = "done" /\ stops = 0 /\ pcStop = "idle" /\ jobs # {}) => running

\* C29 (as claimed), in the form a finite run refutes: once init has
\* returned, every task registered in beat_schedule is among the entries
\* the beat thread sends jobs for, so that its runner can be invoked.
RegisteredTaskIsDispatched ==
    (pcInit = "done" /\ beat_loaded) => beat_schedule \subseteq beat_entries

\* C30 (as claimed): once a call of stop() has returned, a further call
\* sends no broadcast and no purge and shuts nothing down.
SecondStopIsNoOp ==
    [][stops > 0
          => /\ pcStop' \notin {"broadcast", "join_worker", "join_beat", "purge"}
             /\ running' = running
             /\ queue' = queue \/ pcStop' = pcStop
      ]_vars

====
